---- MODULE Spec2Model ----
(***************************************************************************)
(* A model of nyx, a system-tray front-end for systemd units.              *)
(*                                                                         *)
(*   - the service registry and its persistence (ConfigManager,           *)
(*     ServiceConfig.to_dict / from_dict),                                 *)
(*   - the status poller and its notifications (NyxApp,                    *)
(*     NotificationManager),                                               *)
(*   - the service controller (ServiceManager, PolkitHelper).              *)
(*                                                                         *)
(* Python values are modelled as follows: a dict is a function whose       *)
(* domain is the set of its keys, a list is a sequence, None is the value  *)
(* None below, a dataclass instance is a record.  The YAML layer is        *)
(* modelled by the parsed document it yields (yaml.safe_load) or is given  *)
(* (yaml.dump): strings, booleans and integers survive it unchanged.       *)
(***************************************************************************)
EXTENDS Integers, Sequences, FiniteSets, TLC

VARIABLES
    services,           \* ConfigManager.services: the registry, a list of ServiceConfig
    settings,           \* ConfigManager.settings: a dict
    file,               \* the config file on disk (CONFIG_FILE)
    backup,             \* the backup file beside it (.yaml.bak)
    temp,               \* the temporary file beside it (.yaml.tmp)
    saving,             \* where save_config stands and for which call
    procs,              \* per started process: where main() stands, what it did
    shared_memory,      \* the QSharedMemory segment "NyxUniqueKey"
    tray_icons,         \* NyxApp.tray_icons: per tracked key, the cached status,
                        \* in the order of insertion
    last_notification,  \* NotificationManager._last_notification
    now,                \* time.time()
    rule_file,          \* whether POLKIT_RULE_FILE exists
    last,               \* the last call or handler: its name and what it returned
    queried,            \* the keys whose status the last step queried
    notified,           \* the notifications the last step asked for, sent or not
    commands,           \* the systemctl commands the last step ran, with their results
    last_sent           \* history: per key, when a status notification was last sent

cfgvars == <<services, settings, file>>
logvars == <<queried, notified, commands>>
fsvars == <<backup, temp, saving>>
procvars == <<procs, shared_memory>>
appvars == <<tray_icons, last_notification, now, rule_file, queried, notified,
             commands, last_sent, procs, shared_memory>>

(***************************************************************************)
(* Bounds of the model.                                                    *)
(***************************************************************************)
MaxServices == 2
StartTime == 100    \* time.time() when the application starts
TimeStep == 15      \* the clock is read every TimeStep seconds
MaxTime == 145

(***************************************************************************)
(* Constants of the program.                                               *)
(***************************************************************************)
None == "None"
DEFAULT_SERVICE_ICON == "application-x-executable"
DEFAULT_UPDATE_INTERVAL == 5
NOTIFICATION_RATE_LIMIT == 30

Names == {"nginx", "docker"}
Types == {"user", "system"}
Keys == Names \X Types

\* str.capitalize() on the unit names of the model
Capitalize(s) ==
    CASE s = "nginx" -> "Nginx"
      [] s = "docker" -> "Docker"
      [] OTHER -> s

\* dict.get(k, default)
Get(d, k, default) == IF k \in DOMAIN d THEN d[k] ELSE default

\* Python truthiness of an Optional[str]
Truthy(x) == x # None /\ x # ""

(***************************************************************************)
(* ServiceConfig (models/service.py).                                      *)
(***************************************************************************)
\* __post_init__: the two checks that raise ValueError
post_init_ok(name, service_type) ==
    name # "" /\ service_type \in {"user", "system"}

\* the dataclass constructor followed by __post_init__'s display_name default
ServiceConfig(name, display_name, icon, icon_light, icon_dark, service_type, auto_start, enabled) ==
    [name |-> name,
     display_name |-> IF display_name = "" THEN Capitalize(name) ELSE display_name,
     icon |-> icon,
     icon_light |-> icon_light,
     icon_dark |-> icon_dark,
     service_type |-> service_type,
     auto_start |-> auto_start,
     enabled |-> enabled]

get_icon_for_theme(s, is_dark_theme) ==
    IF is_dark_theme
    THEN (IF Truthy(s.icon_dark) THEN s.icon_dark ELSE s.icon)
    ELSE (IF Truthy(s.icon_light) THEN s.icon_light ELSE s.icon)

to_dict_dropping_dark(s) ==
    LET result == [name |-> s.name,
                   display_name |-> s.display_name,
                   icon |-> s.icon,
                   service_type |-> s.service_type,
                   auto_start |-> s.auto_start,
                   enabled |-> s.enabled]
        light == IF Truthy(s.icon_light) /\ s.icon_light # s.icon
                 THEN [icon_light |-> s.icon_light] ELSE <<>>
    IN  result @@ light

to_dict(s) ==
    LET result == [name |-> s.name,
                   display_name |-> s.display_name,
                   icon |-> s.icon,
                   service_type |-> s.service_type,
                   auto_start |-> s.auto_start,
                   enabled |-> s.enabled]
        light == IF Truthy(s.icon_light) /\ s.icon_light # s.icon
                 THEN [icon_light |-> s.icon_light] ELSE <<>>
        dark  == IF Truthy(s.icon_dark) /\ s.icon_dark # s.icon
                 THEN [icon_dark |-> s.icon_dark] ELSE <<>>
    IN  result @@ light @@ dark

\* from_dict raises (KeyError on a missing name, ValueError from __post_init__)
from_dict_raises(data) ==
    \/ "name" \notin DOMAIN data
    \/ ~post_init_ok(data.name, Get(data, "service_type", "user"))

from_dict(data) ==
    ServiceConfig(data.name,
                  Get(data, "display_name", Capitalize(data.name)),
                  Get(data, "icon", DEFAULT_SERVICE_ICON),
                  Get(data, "icon_light", None),
                  Get(data, "icon_dark", None),
                  Get(data, "service_type", "user"),
                  Get(data, "auto_start", FALSE),
                  Get(data, "enabled", TRUE))

(***************************************************************************)
(* The config file.  file.exists: CONFIG_FILE.exists(); file.data: what    *)
(* yaml.safe_load gives for its content:                                   *)
(*   parse = "error"  a YAMLError,                                         *)
(*   top = "null"     an empty file (None),                                *)
(*   top = "list"     a document whose top level is no mapping,            *)
(*   top = "mapping"  a mapping with the keys `keys`; services.isList and  *)
(*                    settings.isMap tell the type of these two values.    *)
(***************************************************************************)
Document(keys, svcIsList, items, setIsMap, map) ==
    [parse |-> "ok", top |-> "mapping", keys |-> keys,
     services |-> [isList |-> svcIsList, items |-> items],
     settings |-> [isMap |-> setIsMap, map |-> map]]

NoDocument(parse, top) ==
    [parse |-> parse, top |-> top, keys |-> {},
     services |-> [isList |-> TRUE, items |-> <<>>],
     settings |-> [isMap |-> TRUE, map |-> <<>>]]

MissingFile == [exists |-> FALSE, data |-> NoDocument("ok", "null")]
EmptyFile == [exists |-> TRUE, data |-> NoDocument("ok", "null")]
GarbageFile == [exists |-> TRUE, data |-> NoDocument("error", "null")]
ListFile == [exists |-> TRUE, data |-> NoDocument("ok", "list")]

(***************************************************************************)
(* ConfigManager (core/config_manager.py).                                 *)
(***************************************************************************)
DefaultSettings ==
    [update_interval |-> DEFAULT_UPDATE_INTERVAL,
     show_notifications |-> TRUE,
     minimize_to_tray |-> FALSE,
     passwordless_mode |-> FALSE,
     show_main_tray |-> TRUE]

\* a mutant that sets every default key, there or not
ensure_default_settings_overriding(s) == DefaultSettings @@ s

\* every default key that is missing is added; a key that is there is kept
ensure_default_settings(s) == s @@ DefaultSettings

load_defaults == [ok |-> FALSE, services |-> <<>>,
                  settings |-> ensure_default_settings(<<>>)]

validate_config_any_settings(data) ==
    /\ data.top = "mapping"
    /\ ("services" \in data.keys => data.services.isList)

validate_config(data) ==
    /\ data.top = "mapping"
    /\ ("services" \in data.keys => data.services.isList)
    /\ ("settings" \in data.keys => data.settings.isMap)

\* `if not data`: None, or an empty mapping
Falsy(data) == data.top = "null" \/ (data.top = "mapping" /\ data.keys = {})

\* the loop over data.get("services", []): an entry that raises is skipped
RECURSIVE LoadServices(_)
LoadServices(items) ==
    IF items = <<>> THEN <<>>
    ELSE IF from_dict_raises(Head(items)) THEN LoadServices(Tail(items))
    ELSE <<from_dict(Head(items))>> \o LoadServices(Tail(items))

\* load_config: what it returns and what it leaves in memory
load_config(f) ==
    IF ~f.exists THEN load_defaults
    ELSE IF f.data.parse = "error" THEN load_defaults
    ELSE IF Falsy(f.data) THEN load_defaults
    ELSE IF ~validate_config(f.data) THEN load_defaults
    ELSE [ok |-> TRUE,
          services |-> LoadServices(IF "services" \in f.data.keys
                                    THEN f.data.services.items ELSE <<>>),
          settings |-> ensure_default_settings(
                           IF "settings" \in f.data.keys
                           THEN f.data.settings.map ELSE <<>>)]

\* save_config: the document written over CONFIG_FILE
save_config(svcs, sets) ==
    [exists |-> TRUE,
     data |-> Document({"version", "services", "settings"},
                       TRUE, [i \in 1..Len(svcs) |-> to_dict(svcs[i])],
                       TRUE, sets)]

\* a mutant of the first step of save_config that leaves the backup alone
keep_backup(f, b) == b

\* save_config, first step: the config file, if there is one, is copied over
\* the backup
copy_backup(f, b) == IF f.exists THEN f ELSE b

SameKey(s, name, service_type) ==
    s.name = name /\ s.service_type = service_type

HasKey(svcs, name, service_type) ==
    \E i \in 1..Len(svcs) : SameKey(svcs[i], name, service_type)

add_service_unchecked(svcs, service) ==
    [ok |-> TRUE, services |-> Append(svcs, service), save |-> TRUE]

add_service(svcs, service) ==
    IF HasKey(svcs, service.name, service.service_type)
    THEN [ok |-> FALSE, services |-> svcs, save |-> FALSE]
    ELSE [ok |-> TRUE, services |-> Append(svcs, service), save |-> TRUE]

RECURSIVE Without(_, _, _)
Without(svcs, name, service_type) ==
    IF svcs = <<>> THEN <<>>
    ELSE IF SameKey(Head(svcs), name, service_type)
         THEN Without(Tail(svcs), name, service_type)
         ELSE <<Head(svcs)>> \o Without(Tail(svcs), name, service_type)

remove_service_by_name(svcs, service_name, service_type) ==
    LET kept == SelectSeq(svcs, LAMBDA s : s.name # service_name)
    IN  IF Len(kept) < Len(svcs)
        THEN [ok |-> TRUE, services |-> kept, save |-> TRUE]
        ELSE [ok |-> FALSE, services |-> kept, save |-> FALSE]

remove_service(svcs, service_name, service_type) ==
    LET kept == Without(svcs, service_name, service_type)
    IN  IF Len(kept) < Len(svcs)
        THEN [ok |-> TRUE, services |-> kept, save |-> TRUE]
        ELSE [ok |-> FALSE, services |-> kept, save |-> FALSE]

\* the first record with the old key is replaced
update_service(svcs, old_name, old_type, updated_service) ==
    IF HasKey(svcs, old_name, old_type)
    THEN LET i == CHOOSE j \in 1..Len(svcs) :
                     /\ SameKey(svcs[j], old_name, old_type)
                     /\ \A k \in 1..(j - 1) : ~SameKey(svcs[k], old_name, old_type)
         IN  [ok |-> TRUE, services |-> [svcs EXCEPT ![i] = updated_service],
              save |-> TRUE]
    ELSE [ok |-> FALSE, services |-> svcs, save |-> FALSE]

set_setting(sets, key, value) == (key :> value) @@ sets

(***************************************************************************)
(* Inputs.                                                                 *)
(***************************************************************************)
\* (icon_light, icon_dark, enabled) of the records given to add_service and
\* update_service: a theme icon is empty, unset, the base icon or another icon
Variants == {<<"", None, TRUE>>,
             <<DEFAULT_SERVICE_ICON, "moon", FALSE>>}

ConfigInputs ==
    {ServiceConfig("nginx", "", DEFAULT_SERVICE_ICON, v[1], v[2], t, FALSE, v[3]) :
        t \in Types, v \in Variants}

\* files another program or an editor left at CONFIG_FILE
\* no settings; entries with omitted fields, one without a name and one with
\* a service_type that is neither user nor system
SparseFile ==
    [exists |-> TRUE,
     data |-> Document({"version", "services"}, TRUE,
                       <<[name |-> "nginx"],
                         [display_name |-> "Nameless"],
                         [name |-> "docker", service_type |-> "global"],
                         [name |-> "docker", service_type |-> "system",
                          enabled |-> FALSE, icon_light |-> "sun"]>>,
                       TRUE, <<>>)]

\* only some of the settings, and no services
PartialSettingsFile ==
    [exists |-> TRUE,
     data |-> Document({"version", "settings"}, TRUE, <<>>,
                       TRUE, [show_notifications |-> FALSE, update_interval |-> 10])]

\* settings as the program writes them, and services that are no list
BrokenServicesFile ==
    [exists |-> TRUE,
     data |-> Document({"version", "services", "settings"}, FALSE, <<>>, TRUE,
                       [DefaultSettings EXCEPT !.show_notifications = FALSE])]

ForeignFiles ==
    {MissingFile, EmptyFile, GarbageFile, ListFile, BrokenServicesFile,
     [exists |-> TRUE, data |-> Document({}, TRUE, <<>>, TRUE, <<>>)],
     [exists |-> TRUE, data |-> Document({"version", "services"}, FALSE, <<>>, TRUE, <<>>)],
     [exists |-> TRUE, data |-> Document({"settings"}, TRUE, <<>>, FALSE, <<>>)],
     SparseFile, PartialSettingsFile}

Call(op, result) == [op |-> op, result |-> result]

(***************************************************************************)
(* The registry on its own: the calls of ConfigManager in any order, on a  *)
(* ConfigManager that has loaded its file as NyxApp._initialize does.      *)
(***************************************************************************)
\* the processes that run main()
MaxProcs == 2
Procs == 1..MaxProcs

Proc(pc, constructed, listening, window, attempts, delay, sent, exit_code) ==
    [pc |-> pc, constructed |-> constructed, listening |-> listening,
     window |-> window, attempts |-> attempts, delay |-> delay, sent |-> sent,
     exit_code |-> exit_code, timer |-> FALSE]

NotStarted == Proc("none", FALSE, FALSE, FALSE, 0, 0, 0, -1)

\* launched at login: tray_app constructed, its update_timer started, IPC
\* server listening, window hidden, inside qt_app.exec()
Running == [Proc("exec", TRUE, TRUE, FALSE, 0, 0, 0, -1) EXCEPT !.timer = TRUE]

\* the segment: whether it exists and the process attached to it (0: none)
NoSegment == [exists |-> FALSE, owner |-> 0]

Segment(p) == [exists |-> TRUE, owner |-> p]

\* no application around the ConfigManager
AppIdle ==
    /\ tray_icons = <<>>
    /\ last_notification = <<>>
    /\ now = StartTime
    /\ rule_file = FALSE
    /\ queried = {}
    /\ notified = <<>>
    /\ commands = <<>>
    /\ last_sent = <<>>
    /\ procs = [p \in Procs |-> NotStarted]
    /\ shared_memory = NoSegment

\* where save_config stands and the call it serves
Saving(pc, op) == [pc |-> pc, op |-> op]

NotSaving == Saving("idle", None)

\* the files beside a config file nobody is writing
FilesIdle ==
    /\ backup = MissingFile
    /\ temp = MissingFile
    /\ saving = NotSaving

InitFrom(files) ==
    \E f \in files :
        /\ AppIdle
        /\ FilesIdle
        /\ file = f
        /\ services = load_config(f).services
        /\ settings = load_config(f).settings
        /\ last = Call("load_config", load_config(f).ok)

\* add / remove / update: the list is replaced and, on success, saved
Mutate(op, r) ==
    /\ services' = r.services
    /\ settings' = settings
    /\ file' = IF r.save THEN save_config(r.services, settings) ELSE file
    /\ backup' = IF r.save THEN copy_backup(file, backup) ELSE backup
    /\ UNCHANGED <<temp, saving>>
    /\ last' = Call(op, r.ok)

AddService(s) ==
    /\ Len(services) < MaxServices \/ HasKey(services, s.name, s.service_type)
    /\ Mutate("add_service", add_service(services, s))

RemoveService(name, service_type) ==
    Mutate("remove_service", remove_service(services, name, service_type))

UpdateService(old_name, old_type, s) ==
    Mutate("update_service", update_service(services, old_name, old_type, s))

SetSetting(key, value) ==
    /\ settings' = set_setting(settings, key, value)
    /\ file' = save_config(services, settings')
    /\ backup' = copy_backup(file, backup)
    /\ UNCHANGED <<temp, saving>>
    /\ services' = services
    /\ last' = Call("set_setting", TRUE)

LoadConfig ==
    /\ services' = load_config(file).services
    /\ settings' = load_config(file).settings
    /\ file' = file
    /\ UNCHANGED fsvars
    /\ last' = Call("load_config", load_config(file).ok)

\* the file is replaced or deleted behind the program's back
ForeignWrite(f) ==
    /\ file' = f
    /\ UNCHANGED <<services, settings, backup, temp, saving>>
    /\ last' = Call("foreign_write", TRUE)

ConfigNext ==
    /\ UNCHANGED appvars
    /\ \/ \E s \in ConfigInputs : AddService(s)
       \/ \E k \in Keys : RemoveService(k[1], k[2])
       \/ \E k \in Keys, s \in ConfigInputs : UpdateService(k[1], k[2], s)
       \/ \E v \in BOOLEAN : SetSetting("show_notifications", v)
       \/ LoadConfig

vars == <<services, settings, file, backup, temp, saving, procs, shared_memory,
          tray_icons, last_notification, now, rule_file, last, queried, notified,
          commands, last_sent>>

ConfigInit == InitFrom({MissingFile, SparseFile})

SpecConfig == ConfigInit /\ [][ConfigNext]_vars

(***************************************************************************)
(* Loading: the same ConfigManager with a file that changes under it.      *)
(***************************************************************************)
LoadInputs ==
    {ServiceConfig("nginx", "", DEFAULT_SERVICE_ICON, None, None, t, FALSE, TRUE) :
        t \in Types}

LoadNext ==
    /\ UNCHANGED appvars
    /\ \/ \E s \in LoadInputs : AddService(s)
       \/ \E v \in BOOLEAN : SetSetting("passwordless_mode", v)
       \/ \E f \in ForeignFiles : ForeignWrite(f)
       \/ LoadConfig

LoadInit == InitFrom(ForeignFiles)

SpecLoad == LoadInit /\ [][LoadNext]_vars

(***************************************************************************)
(* The application: tray icons, poller, notifier, service controller.      *)
(***************************************************************************)
ServiceStatus ==
    {"active", "inactive", "failed", "activating", "deactivating", "unknown"}

KeyOf(s) == <<s.name, s.service_type>>

get_enabled_services(svcs) == SelectSeq(svcs, LAMBDA s : s.enabled)

EnabledKeys(svcs) == {KeyOf(svcs[i]) : i \in {j \in 1..Len(svcs) : svcs[j].enabled}}

RegistryKeys(svcs) == {KeyOf(svcs[i]) : i \in 1..Len(svcs)}

TrackedKeys(tray) == {tray[i].key : i \in 1..Len(tray)}

\* _create_tray_icon: an existing icon is returned as it is; a new one is put
\* at the end of the dict and shows the status queried for it
create_tray_icon(tray, key, status) ==
    IF key \in TrackedKeys(tray) THEN tray
    ELSE Append(tray, [key |-> key, status |-> status])

\* a mutant of _remove_tray_icon that leaves the icon
remove_tray_icon_kept(tray, key) == tray

remove_tray_icon(tray, key) == SelectSeq(tray, LAMBDA e : e.key # key)

\* a mutant of _should_notify that still suppresses at exactly the limit
should_notify_past_limit(lastn, service_name, t) ==
    ~(t - Get(lastn, service_name, 0) <= NOTIFICATION_RATE_LIMIT)

\* NotificationManager: the last notification is kept per service_name
should_notify(lastn, service_name, t) ==
    ~(t - Get(lastn, service_name, 0) < NOTIFICATION_RATE_LIMIT)

update_notification_time(lastn, service_name, t) == (service_name :> t) @@ lastn

notify_status_change_on_any_stop(old_status, new_status) ==
    IF new_status = "active" /\ old_status # "active" THEN "started"
    ELSE IF new_status = "inactive" THEN "stopped"
    ELSE IF new_status = "failed" THEN "failed"
    ELSE None

\* _notify_status_change: which notification a transition asks for
notify_status_change(old_status, new_status) ==
    IF new_status = "active" /\ old_status # "active" THEN "started"
    ELSE IF new_status = "inactive" /\ old_status = "active" THEN "stopped"
    ELSE IF new_status = "failed" THEN "failed"
    ELSE None

\* a mutant of the pass that gives up at the first query answered unknown
RECURSIVE update_from_until_unknown(_, _, _, _, _)
update_from_until_unknown(st, i, q, show, t) ==
    IF i > Len(st.tray) \/ q[st.tray[i].key] = "unknown" THEN st
    ELSE LET e == st.tray[i]
             new_status == q[e.key]
             kind == IF show THEN notify_status_change(e.status, new_status)
                     ELSE None
             sent == kind # None /\ should_notify(st.lastn, e.key[1], t)
             st1 == IF e.status = new_status THEN st
                    ELSE [tray |-> [st.tray EXCEPT ![i].status = new_status],
                          lastn |-> IF sent
                                    THEN update_notification_time(st.lastn, e.key[1], t)
                                    ELSE st.lastn,
                          notified |-> IF kind # None
                                       THEN Append(st.notified,
                                                   [key |-> e.key, kind |-> kind,
                                                    sent |-> sent])
                                       ELSE st.notified,
                          sent_at |-> IF sent THEN (e.key :> t) @@ st.sent_at
                                      ELSE st.sent_at]
         IN  update_from_until_unknown(st1, i + 1, q, show, t)

\* one pass of update_all_services over the icons from i on, in dict order;
\* q is what get_service_status returns for each tracked key
RECURSIVE update_from(_, _, _, _, _)
update_from(st, i, q, show, t) ==
    IF i > Len(st.tray) THEN st
    ELSE LET e == st.tray[i]
             new_status == q[e.key]
             kind == IF show THEN notify_status_change(e.status, new_status)
                     ELSE None
             sent == kind # None /\ should_notify(st.lastn, e.key[1], t)
             st1 == IF e.status = new_status THEN st
                    ELSE [tray |-> [st.tray EXCEPT ![i].status = new_status],
                          lastn |-> IF sent
                                    THEN update_notification_time(st.lastn, e.key[1], t)
                                    ELSE st.lastn,
                          notified |-> IF kind # None
                                       THEN Append(st.notified,
                                                   [key |-> e.key, kind |-> kind,
                                                    sent |-> sent])
                                       ELSE st.notified,
                          sent_at |-> IF sent THEN (e.key :> t) @@ st.sent_at
                                      ELSE st.sent_at]
         IN  update_from(st1, i + 1, q, show, t)

update_all_services(tray, lastn, notes, sent_at, q, show, t) ==
    update_from([tray |-> tray, lastn |-> lastn, notified |-> notes,
                 sent_at |-> sent_at], 1, q, show, t)

\* text is a sequence of pieces: single characters for what a process wrote
Whitespace == {" ", "\n", "\t"}

RECURSIVE LStrip(_)
LStrip(s) ==
    IF s # <<>> /\ Head(s) \in Whitespace THEN LStrip(Tail(s)) ELSE s

RECURSIVE RStrip(_)
RStrip(s) ==
    IF s # <<>> /\ s[Len(s)] \in Whitespace
    THEN RStrip(SubSeq(s, 1, Len(s) - 1)) ELSE s

Strip(s) == RStrip(LStrip(s))

\* how subprocess.run ends: exit 0, TimeoutExpired, CalledProcessError with
\* the stderr it captured, or another exception
Stderrs == {<<>>, <<"\n">>, <<"n", "o", "\n">>}

Outcomes ==
    {[kind |-> k, stderr |-> <<>>] : k \in {"ok", "timeout", "oserror"}}
    \cup {[kind |-> "nonzero", stderr |-> s] : s \in Stderrs}

Actions == {"start", "stop", "restart", "enable", "disable"}

is_passwordless_enabled(sets) == Get(sets, "passwordless_mode", FALSE)

systemctl_argv_always_pkexec(action, service_name, is_user_service, passwordless) ==
    <<"pkexec", "systemctl">>
    \o (IF is_user_service THEN <<"--user">> ELSE <<>>)
    \o <<action, service_name>>

systemctl_argv(action, service_name, is_user_service, passwordless) ==
    (IF ~is_user_service /\ ~passwordless THEN <<"pkexec">> ELSE <<>>)
    \o <<"systemctl">>
    \o (IF is_user_service THEN <<"--user">> ELSE <<>>)
    \o <<action, service_name>>

\* the None of (True, None), among the texts: no message is this text
NoError == <<None>>

error_message_raw(action, service_name, o) ==
    IF o.kind = "ok" THEN NoError
    ELSE IF o.kind = "timeout"
    THEN <<"Timeout while trying to ", action, " ", service_name>>
    ELSE IF o.kind = "nonzero" THEN o.stderr
    ELSE <<"[Errno 2] No such file or directory">>

error_message(action, service_name, o) ==
    IF o.kind = "ok" THEN NoError
    ELSE IF o.kind = "timeout"
    THEN <<"Timeout while trying to ", action, " ", service_name>>
    ELSE IF o.kind = "nonzero"
    THEN IF o.stderr # <<>> THEN Strip(o.stderr)
         ELSE <<"Failed to ", action, " ", service_name>>
    ELSE <<"[Errno 2] No such file or directory">>

\* _execute_systemctl_action: the command it runs and the pair it returns
execute_systemctl_action(action, service_name, is_user_service, sets, o) ==
    [action |-> action, name |-> service_name, is_user |-> is_user_service,
     argv |-> systemctl_argv(action, service_name, is_user_service,
                             is_passwordless_enabled(sets)),
     ok |-> o.kind = "ok",
     error |-> error_message(action, service_name, o)]

\* what the dialogs hand back: the base icon is the light icon, a theme icon
\* equal to it is dropped
DialogConfig(name, display_name, light, dark, service_type, auto_start, enabled) ==
    LET icon_light == IF light = "" THEN DEFAULT_SERVICE_ICON ELSE light
        icon_dark == IF dark = "" THEN DEFAULT_SERVICE_ICON ELSE dark
        icon == icon_light
    IN  ServiceConfig(name, display_name, icon,
                      IF icon_light # icon THEN icon_light ELSE None,
                      IF icon_dark # icon THEN icon_dark ELSE None,
                      service_type, auto_start, enabled)

\* AddServiceDialog with the icon fields left empty
AddServiceDialog(name, service_type, enabled) ==
    DialogConfig(name, Capitalize(name), "", "", service_type, FALSE, enabled)

\* EditServiceDialog: the fields show the record, the user sets the checkbox
EditServiceDialog(original, enabled) ==
    DialogConfig(original.name, original.display_name,
                 IF Truthy(original.icon_light) THEN original.icon_light
                 ELSE original.icon,
                 IF Truthy(original.icon_dark) THEN original.icon_dark
                 ELSE original.icon,
                 original.service_type, original.auto_start, enabled)

RECURSIVE create_tray_icons(_, _, _)
create_tray_icons(tray, svcs, q) ==
    IF svcs = <<>> THEN tray
    ELSE create_tray_icons(
             create_tray_icon(tray, KeyOf(Head(svcs)), q[KeyOf(Head(svcs))]),
             Tail(svcs), q)

AutoStarted(svcs) == {i \in 1..Len(svcs) : svcs[i].auto_start}

\* a mutant of _auto_start_services that skips the records without an icon
RECURSIVE auto_start_services_enabled_only(_, _, _, _)
auto_start_services_enabled_only(svcs, i, sets, o) ==
    IF i > Len(svcs) THEN <<>>
    ELSE (IF svcs[i].auto_start /\ svcs[i].enabled
          THEN <<execute_systemctl_action("start", svcs[i].name,
                                          svcs[i].service_type = "user", sets, o[i])>>
          ELSE <<>>)
         \o auto_start_services_enabled_only(svcs, i + 1, sets, o)

\* _auto_start_services: start_service for every record with auto_start
RECURSIVE auto_start_services(_, _, _, _)
auto_start_services(svcs, i, sets, o) ==
    IF i > Len(svcs) THEN <<>>
    ELSE (IF svcs[i].auto_start
          THEN <<execute_systemctl_action("start", svcs[i].name,
                                          svcs[i].service_type = "user", sets, o[i])>>
          ELSE <<>>)
         \o auto_start_services(svcs, i + 1, sets, o)

\* NyxApp() over a config file: load, one icon per enabled record with the
\* status queried for it, auto-start, timer started
Initialize(files, statuses, rules) ==
    \E f \in files, rf \in rules :
        LET l == load_config(f)
        IN  \E q \in [EnabledKeys(l.services) -> statuses],
               o \in [AutoStarted(l.services) -> Outcomes] :
                /\ file = f
                /\ services = l.services
                /\ settings = l.settings
                /\ tray_icons = create_tray_icons(<<>>, get_enabled_services(l.services), q)
                /\ commands = auto_start_services(l.services, 1, l.settings, o)
                /\ queried = EnabledKeys(l.services)
                /\ notified = <<>>
                /\ last_notification = <<>>
                /\ last_sent = <<>>
                /\ now = StartTime
                /\ rule_file = rf
                /\ FilesIdle
                /\ procs = [p \in Procs |-> IF p = 1 THEN Running ELSE NotStarted]
                /\ shared_memory = Segment(1)
                /\ last = Call("initialize", l.ok)

\* a mutant that notifies whatever the setting is
show_notifications_always == TRUE

\* the show_notifications setting as update_all_services reads it
show_notifications == Get(settings, "show_notifications", TRUE)

\* the timer fires, which it does only while it is started:
\* update_all_services
\* a mutant of the tick that saves the registry when it is done
TickRewritingConfig(q) ==
    /\ \E p \in Procs : procs[p].timer
    /\ LET r == update_all_services(tray_icons, last_notification, <<>>, last_sent,
                                    q, show_notifications, now)
       IN  /\ tray_icons' = r.tray
           /\ last_notification' = r.lastn
           /\ notified' = r.notified
           /\ last_sent' = r.sent_at
    /\ queried' = TrackedKeys(tray_icons)
    /\ commands' = <<>>
    /\ last' = Call("tick", TRUE)
    /\ file' = save_config(services, settings)
    /\ backup' = copy_backup(file, backup)
    /\ UNCHANGED <<services, settings, now, rule_file, temp, saving, procvars>>

Tick(q) ==
    /\ \E p \in Procs : procs[p].timer
    /\ LET r == update_all_services(tray_icons, last_notification, <<>>, last_sent,
                                    q, show_notifications, now)
       IN  /\ tray_icons' = r.tray
           /\ last_notification' = r.lastn
           /\ notified' = r.notified
           /\ last_sent' = r.sent_at
    /\ queried' = TrackedKeys(tray_icons)
    /\ commands' = <<>>
    /\ last' = Call("tick", TRUE)
    /\ UNCHANGED <<services, settings, file, now, rule_file>>
    /\ UNCHANGED <<fsvars, procvars>>

AdvanceTime ==
    /\ now + TimeStep <= MaxTime
    /\ now' = now + TimeStep
    /\ queried' = {}
    /\ notified' = <<>>
    /\ commands' = <<>>
    /\ last' = Call("time", TRUE)
    /\ UNCHANGED <<services, settings, file, tray_icons, last_notification,
                   rule_file, last_sent>>
    /\ UNCHANGED <<fsvars, procvars>>

\* _on_start_requested, _on_stop_requested, _on_restart_requested: the
\* command, an error notification if it failed, then update_all_services
LifecycleRequested(action, key, o, q) ==
    /\ key \in RegistryKeys(services) \cup TrackedKeys(tray_icons)
    /\ LET c == execute_systemctl_action(action, key[1], key[2] = "user", settings, o)
           errors == IF c.ok THEN <<>>
                     ELSE <<[key |-> key, kind |-> "error", sent |-> TRUE]>>
           r == update_all_services(tray_icons, last_notification, errors,
                                    last_sent, q, show_notifications, now)
       IN  /\ commands' = <<c>>
           /\ tray_icons' = r.tray
           /\ last_notification' = r.lastn
           /\ notified' = r.notified
           /\ last_sent' = r.sent_at
           /\ last' = Call(action, c.ok)
    /\ queried' = TrackedKeys(tray_icons)
    /\ UNCHANGED <<services, settings, file, now, rule_file>>
    /\ UNCHANGED <<fsvars, procvars>>

OnStartRequested(key, o, q) == LifecycleRequested("start", key, o, q)

OnStopRequested(key, o, q) == LifecycleRequested("stop", key, o, q)

OnRestartRequested(key, o, q) == LifecycleRequested("restart", key, o, q)

\* ServiceManager.enable_service / disable_service
ServiceCall(action, key, o) ==
    /\ commands' = <<execute_systemctl_action(action, key[1], key[2] = "user",
                                              settings, o)>>
    /\ queried' = {}
    /\ notified' = <<>>
    /\ last' = Call(action, o.kind = "ok")
    /\ UNCHANGED <<services, settings, file, tray_icons, last_notification, now,
                   rule_file, last_sent>>
    /\ UNCHANGED <<fsvars, procvars>>

EnableService(key, o) == ServiceCall("enable", key, o)

DisableService(key, o) == ServiceCall("disable", key, o)

\* NyxApp.add_service: an icon only for an enabled record that was added
OnAddService(s, status) ==
    /\ Len(services) < MaxServices \/ HasKey(services, s.name, s.service_type)
    /\ LET r == add_service(services, s)
       IN  /\ Mutate("add_service", r)
           /\ tray_icons' = IF r.ok /\ s.enabled
                            THEN create_tray_icon(tray_icons, KeyOf(s), status)
                            ELSE tray_icons
           /\ queried' = IF r.ok /\ s.enabled /\ KeyOf(s) \notin TrackedKeys(tray_icons)
                         THEN {KeyOf(s)} ELSE {}
    /\ notified' = <<>>
    /\ commands' = <<>>
    /\ UNCHANGED <<last_notification, now, rule_file, last_sent, procs, shared_memory>>

\* _on_edit_requested: the record is replaced; an icon is re-created only
\* where there was one
OnEditRequested(key, enabled, status) ==
    /\ HasKey(services, key[1], key[2])
    /\ LET original == services[CHOOSE j \in 1..Len(services) :
                            /\ SameKey(services[j], key[1], key[2])
                            /\ \A k \in 1..(j - 1) : ~SameKey(services[k], key[1], key[2])]
           updated_config == EditServiceDialog(original, enabled)
       IN  /\ Mutate("update_service",
                     update_service(services, key[1], key[2], updated_config))
           /\ tray_icons' = IF key \in TrackedKeys(tray_icons)
                            THEN create_tray_icon(remove_tray_icon(tray_icons, key),
                                                  KeyOf(updated_config), status)
                            ELSE tray_icons
    /\ queried' = IF key \in TrackedKeys(tray_icons) THEN {key} ELSE {}
    /\ notified' = <<>>
    /\ commands' = <<>>
    /\ UNCHANGED <<last_notification, now, rule_file, last_sent, procs, shared_memory>>

\* _on_remove_requested: the question is answered Yes or No
OnRemoveRequested(key, reply) ==
    /\ key \in RegistryKeys(services) \cup TrackedKeys(tray_icons)
    /\ IF reply = "Yes"
       THEN /\ Mutate("remove_service", remove_service(services, key[1], key[2]))
            /\ tray_icons' = remove_tray_icon(tray_icons, key)
       ELSE /\ last' = Call("remove_requested", FALSE)
            /\ UNCHANGED <<cfgvars, fsvars, tray_icons>>
    /\ queried' = {}
    /\ notified' = <<>>
    /\ commands' = <<>>
    /\ UNCHANGED <<last_notification, now, rule_file, last_sent, procs, shared_memory>>

\* SettingsDialog._save_settings with the notifications box set, the other
\* fields as shown
SaveSettings(show) ==
    /\ settings' = set_setting(
                     set_setting(
                       set_setting(
                         set_setting(settings, "show_main_tray",
                                     Get(settings, "show_main_tray", TRUE)),
                         "show_notifications", show),
                       "update_interval",
                       Get(settings, "update_interval", DEFAULT_UPDATE_INTERVAL)),
                     "minimize_to_tray", Get(settings, "minimize_to_tray", TRUE))
    /\ file' = save_config(services, settings')
    /\ backup' = save_config(services,
                              [settings' EXCEPT !["minimize_to_tray"] =
                                   Get(settings, "minimize_to_tray", None)])
    /\ UNCHANGED <<temp, saving, procs, shared_memory>>
    /\ queried' = {}
    /\ notified' = <<>>
    /\ commands' = <<>>
    /\ last' = Call("save_settings", TRUE)
    /\ UNCHANGED <<services, tray_icons, last_notification, now, rule_file, last_sent>>

PolkitOutcomes == {"ok", "nonzero", "timeout"}

PolkitCommand(action, argv, ok) ==
    [action |-> action, name |-> "", is_user |-> FALSE, argv |-> argv, ok |-> ok,
     error |-> NoError]

\* enable_passwordless_mode: the rule is copied under pkexec; on exit 0 polkit
\* is restarted under pkexec and the setting saved.  A copy that timed out
\* may or may not have been done.
EnablePasswordless(o, done) ==
    /\ ~is_passwordless_enabled(settings)
    /\ rule_file' = IF o = "ok" THEN TRUE
                    ELSE IF o = "timeout" THEN rule_file \/ done
                    ELSE rule_file
    /\ settings' = IF o = "ok" THEN set_setting(settings, "passwordless_mode", TRUE)
                   ELSE settings
    /\ file' = IF o = "ok" THEN save_config(services, settings') ELSE file
    /\ backup' = IF o = "ok" THEN copy_backup(file, backup) ELSE backup
    /\ UNCHANGED <<temp, saving, procs, shared_memory>>
    /\ commands' = <<PolkitCommand("install_rule", <<"pkexec", "sh", "-c", "cp && chmod">>,
                                   o = "ok")>>
                   \o (IF o = "ok"
                       THEN <<PolkitCommand("restart_polkit",
                                            <<"pkexec", "systemctl", "restart", "polkit">>,
                                            TRUE)>>
                       ELSE <<>>)
    /\ queried' = {}
    /\ notified' = <<>>
    /\ last' = Call("enable_passwordless_mode", o = "ok")
    /\ UNCHANGED <<services, tray_icons, last_notification, now, last_sent>>

\* disable_passwordless_mode: rm -f under pkexec; on exit 0 the setting saved
DisablePasswordless(o, done) ==
    /\ is_passwordless_enabled(settings)
    /\ rule_file' = IF o = "ok" THEN FALSE
                    ELSE IF o = "timeout" THEN rule_file /\ ~done
                    ELSE rule_file
    /\ settings' = IF o = "ok" THEN set_setting(settings, "passwordless_mode", FALSE)
                   ELSE settings
    /\ file' = IF o = "ok" THEN save_config(services, settings') ELSE file
    /\ backup' = IF o = "ok" THEN copy_backup(file, backup) ELSE backup
    /\ UNCHANGED <<temp, saving, procs, shared_memory>>
    /\ commands' = <<PolkitCommand("remove_rule", <<"pkexec", "rm", "-f", "rule">>,
                                   o = "ok")>>
    /\ queried' = {}
    /\ notified' = <<>>
    /\ last' = Call("disable_passwordless_mode", o = "ok")
    /\ UNCHANGED <<services, tray_icons, last_notification, now, last_sent>>

(***************************************************************************)
(* Scenarios of the application.                                           *)
(***************************************************************************)
AppRecord(service_type, auto_start, enabled) ==
    ServiceConfig("nginx", "", DEFAULT_SERVICE_ICON, None, None, service_type,
                  auto_start, enabled)

AppKeys == {<<"nginx", t>> : t \in Types}

\* the system service shown, the user service of the same name hidden
SystemShownFile ==
    save_config(<<AppRecord("user", TRUE, FALSE), AppRecord("system", FALSE, TRUE)>>,
                DefaultSettings)

\* a user and a system service of the same name, both shown
TwoNginxFile ==
    save_config(<<AppRecord("user", TRUE, TRUE), AppRecord("system", FALSE, TRUE)>>,
                DefaultSettings)

\* one service shown, one hidden
HiddenFile ==
    save_config(<<AppRecord("user", FALSE, TRUE), AppRecord("system", FALSE, FALSE)>>,
                DefaultSettings)

\* both services started with the application, only the user service shown
AutoStartFile ==
    save_config(<<AppRecord("user", TRUE, TRUE), AppRecord("system", TRUE, FALSE)>>,
                DefaultSettings)

Queries(statuses) == [TrackedKeys(tray_icons) -> statuses]

\* the poller and the notifier as time passes
PollInit == Initialize({TwoNginxFile}, {"inactive", "active"}, {FALSE})

PollNext ==
    \/ \E q \in Queries(ServiceStatus) : Tick(q)
    \/ AdvanceTime
    \/ \E show \in BOOLEAN : SaveSettings(show)

SpecPoll == PollInit /\ [][PollNext]_vars

\* the application from its construction to its first ticks
StartupStatuses == {"inactive", "active"}

StartupInit ==
    Initialize({AutoStartFile, SystemShownFile, HiddenFile}, StartupStatuses, {FALSE})

StartupNext ==
    \/ \E q \in Queries(StartupStatuses) : Tick(q)
    \/ AdvanceTime

SpecStartup == StartupInit /\ [][StartupNext]_vars

\* the service controller and the passwordless toggle
ControlStatuses == {"inactive", "failed"}

ControlInit == Initialize({SystemShownFile}, {"inactive"}, BOOLEAN)

ControlNext ==
    \/ \E k \in AppKeys, o \in Outcomes, q \in Queries(ControlStatuses) :
           OnStartRequested(k, o, q)
    \/ \E k \in AppKeys, o \in Outcomes, q \in Queries(ControlStatuses) :
           OnStopRequested(k, o, q)
    \/ \E k \in AppKeys, o \in Outcomes, q \in Queries(ControlStatuses) :
           OnRestartRequested(k, o, q)
    \/ \E k \in AppKeys, o \in Outcomes : EnableService(k, o)
    \/ \E k \in AppKeys, o \in Outcomes : DisableService(k, o)
    \/ \E o \in PolkitOutcomes, done \in BOOLEAN : EnablePasswordless(o, done)
    \/ \E o \in PolkitOutcomes, done \in BOOLEAN : DisablePasswordless(o, done)

SpecControl == ControlInit /\ [][ControlNext]_vars

\* the registry handlers between ticks
TrayStatuses == {"inactive", "active"}

Init == Initialize({MissingFile, HiddenFile}, TrayStatuses, {FALSE})

Next ==
    \/ \E q \in Queries(TrayStatuses) : Tick(q)
    \/ \E t \in Types, enabled \in BOOLEAN, status \in TrayStatuses :
           OnAddService(AddServiceDialog("nginx", t, enabled), status)
    \/ \E k \in AppKeys, enabled \in BOOLEAN, status \in TrayStatuses :
           OnEditRequested(k, enabled, status)
    \/ \E k \in AppKeys, reply \in {"Yes", "No"} : OnRemoveRequested(k, reply)

Spec == Init /\ [][Next]_vars

(***************************************************************************)
(* Starting: processes that run main() side by side.  The application      *)
(* variables are the memory of the process that constructed NyxApp.        *)
(***************************************************************************)
\* the flags main() is launched with
Launches == [show_window : BOOLEAN, startup : BOOLEAN]

\* no services; the user asked for the window to stay hidden
MinimizedFile ==
    save_config(<<>>, [DefaultSettings EXCEPT !.minimize_to_tray = TRUE])

max_retries == 5

retry_delays == <<100, 200, 500, 1000, 2000>>

\* a mutant that sleeps the first delay after every failed attempt
retry_delay_first(attempt) == retry_delays[1]

\* the milliseconds slept after the failed attempt of that number (from 1)
retry_delay(attempt) == retry_delays[attempt]

\* QSharedMemory.create on a segment that does not exist yet and that the
\* system grants; a mutant that creates whether or not the segment exists
create_unchecked(segment, granted) == granted

create(segment, granted) == ~segment.exists /\ granted

\* the processes whose IPC server takes connections
Listeners == {l \in Procs : procs[l].pc = "exec" /\ procs[l].listening}

\* the memory of a process that is gone
AppGone ==
    /\ services' = <<>>
    /\ settings' = <<>>
    /\ tray_icons' = <<>>
    /\ last_notification' = <<>>
    /\ last_sent' = <<>>

Silent ==
    /\ queried' = {}
    /\ notified' = <<>>
    /\ commands' = <<>>

\* main() up to the single-instance check
Start(p) ==
    /\ procs[p].pc = "none"
    /\ procs' = [procs EXCEPT ![p].pc = "check"]
    /\ last' = Call("start", TRUE)
    /\ Silent
    /\ UNCHANGED <<cfgvars, fsvars, shared_memory, tray_icons, last_notification,
                   now, rule_file, last_sent>>

\* check_single_instance: the claim is the creation of the segment
CheckSingleInstance(p, granted) ==
    /\ procs[p].pc = "check"
    /\ LET claimed == create(shared_memory, granted)
       IN  /\ shared_memory' = IF claimed THEN Segment(p) ELSE shared_memory
           /\ procs' = [procs EXCEPT ![p].pc = IF claimed THEN "construct" ELSE "signal"]
           /\ last' = Call("check_single_instance", claimed)
    /\ Silent
    /\ UNCHANGED <<cfgvars, fsvars, tray_icons, last_notification, now, rule_file,
                   last_sent>>

\* send_show_window_signal, one attempt: on a connection the message is
\* written, the listener shows its window, and main() exits with 0; without
\* one the process sleeps before the next attempt, and after the last attempt
\* main() exits with 0 as well
SendShowWindowSignal(p, connected) ==
    /\ procs[p].pc = "signal"
    /\ \/ /\ connected
          /\ \E l \in Listeners :
                 procs' = [procs EXCEPT ![l].window = TRUE,
                                        ![p].attempts = @ + 1,
                                        ![p].sent = @ + 1,
                                        ![p].pc = "exited", ![p].exit_code = 0]
          /\ last' = Call("send_show_window_signal", TRUE)
       \/ /\ ~connected \/ Listeners = {}
          /\ procs' = [procs EXCEPT
                          ![p].attempts = @ + 1,
                          ![p].delay = IF procs[p].attempts + 1 < max_retries
                                       THEN retry_delay(procs[p].attempts + 1) ELSE @,
                          ![p].pc = IF procs[p].attempts + 1 = max_retries
                                    THEN "exited" ELSE @,
                          ![p].exit_code = IF procs[p].attempts + 1 = max_retries
                                           THEN 0 ELSE @]
          /\ last' = Call("send_show_window_signal", FALSE)
    /\ Silent
    /\ UNCHANGED <<cfgvars, fsvars, shared_memory, tray_icons, last_notification,
                   now, rule_file, last_sent>>

\* NyxApp(): the config is loaded, an icon made for every enabled record,
\* the records with auto_start started
Construct(p, statuses) ==
    /\ procs[p].pc = "construct"
    /\ LET l == load_config(file)
       IN  \E q \in [EnabledKeys(l.services) -> statuses],
              o \in [AutoStarted(l.services) -> {x \in Outcomes : x.kind = "ok"}] :
               /\ services' = l.services
               /\ settings' = l.settings
               /\ tray_icons' = create_tray_icons(<<>>, get_enabled_services(l.services), q)
               /\ commands' = auto_start_services(l.services, 1, l.settings, o)
               /\ queried' = EnabledKeys(l.services)
               /\ notified' = <<>>
               /\ last' = Call("initialize", l.ok)
    /\ last_notification' = <<>>
    /\ last_sent' = <<>>
    /\ procs' = [procs EXCEPT ![p].pc = "ipc", ![p].constructed = TRUE,
                              ![p].timer = TRUE]
    /\ UNCHANGED <<file, fsvars, shared_memory, now, rule_file>>

\* an exception in the try block of main(): dialog, return 1, and the
\* finally clause detaches the segment
ConstructFails(p) ==
    /\ procs[p].pc = "construct"
    /\ procs' = [procs EXCEPT ![p].pc = "exited", ![p].exit_code = 1]
    /\ shared_memory' = NoSegment
    /\ last' = Call("initialize", FALSE)
    /\ Silent
    /\ UNCHANGED <<cfgvars, fsvars, tray_icons, last_notification, now, rule_file,
                   last_sent>>

\* the window of a fresh application: --show-window, then --startup, then the
\* minimize_to_tray setting; before it a mutant that looks at --startup first
window_shown_startup_first(args, sets) ==
    IF args.startup THEN FALSE
    ELSE IF args.show_window THEN TRUE
    ELSE ~Get(sets, "minimize_to_tray", FALSE)

window_shown(args, sets) ==
    IF args.show_window THEN TRUE
    ELSE IF args.startup THEN FALSE
    ELSE ~Get(sets, "minimize_to_tray", FALSE)

\* setup_ipc_server and the rest of main() up to qt_app.exec(), for the
\* arguments the process was launched with
SetupIpcServer(p, listens, args) ==
    /\ procs[p].pc = "ipc"
    /\ procs' = [procs EXCEPT ![p].pc = "exec",
                              ![p].listening = listens,
                              ![p].window = window_shown(args, settings)]
    /\ last' = Call("setup_ipc_server", listens)
    /\ Silent
    /\ UNCHANGED <<cfgvars, fsvars, shared_memory, tray_icons, last_notification,
                   now, rule_file, last_sent>>

\* qt_app.exec() returns: cleanup, the server closed, the segment detached
Quit(p) ==
    /\ procs[p].pc = "exec"
    /\ procs' = [procs EXCEPT ![p].pc = "exited", ![p].exit_code = 0,
                              ![p].listening = FALSE, ![p].window = FALSE,
                              ![p].timer = FALSE]
    /\ shared_memory' = NoSegment
    /\ AppGone
    /\ last' = Call("quit", TRUE)
    /\ Silent
    /\ UNCHANGED <<file, fsvars, now, rule_file>>

\* the process is killed: nothing of main() runs any more, and a segment it
\* created stays behind with no process attached
Kill(p) ==
    /\ procs[p].pc \in {"check", "signal", "construct", "ipc", "exec"}
    /\ procs' = [procs EXCEPT ![p].pc = "killed", ![p].listening = FALSE,
                              ![p].window = FALSE, ![p].timer = FALSE]
    /\ shared_memory' = IF shared_memory.owner = p
                        THEN [shared_memory EXCEPT !.owner = 0] ELSE shared_memory
    /\ IF procs[p].constructed
       THEN AppGone
       ELSE UNCHANGED <<services, settings, tray_icons, last_notification, last_sent>>
    /\ last' = Call("kill", TRUE)
    /\ Silent
    /\ UNCHANGED <<file, fsvars, now, rule_file>>

InstanceInit ==
    /\ AppIdle
    /\ FilesIdle
    /\ file \in {MissingFile, SystemShownFile, MinimizedFile}
    /\ services = <<>>
    /\ settings = <<>>
    /\ last = Call("boot", TRUE)

InstanceNext ==
    \/ \E p \in Procs : Start(p)
    \/ \E p \in Procs, granted \in BOOLEAN : CheckSingleInstance(p, granted)
    \/ \E p \in Procs, connected \in BOOLEAN : SendShowWindowSignal(p, connected)
    \/ \E p \in Procs : Construct(p, {"inactive"})
    \/ \E p \in Procs : ConstructFails(p)
    \/ \E p \in Procs, listens \in BOOLEAN, args \in Launches :
           SetupIpcServer(p, listens, args)
    \/ \E p \in Procs : Quit(p)
    \/ \E p \in Procs : Kill(p)

SpecInstance == InstanceInit /\ [][InstanceNext]_vars

\* the same processes, each of which goes on with send_show_window_signal once
\* it is in it: an attempt waits at most a second for the connection and the
\* sleep after it is finite
SpecSignal ==
    /\ InstanceInit
    /\ [][InstanceNext]_vars
    /\ \A p \in Procs :
           WF_vars(\E connected \in BOOLEAN : SendShowWindowSignal(p, connected))

(***************************************************************************)
(* Quitting: cleanup() from the quit handlers, then again from main().     *)
(***************************************************************************)
\* a mutant of cleanup that leaves the icons in the dict
cleanup_keeping_icons(app) == [timer |-> FALSE, tray |-> app.tray]

\* NyxApp.cleanup: the timer stopped, every icon hidden and the dict cleared
cleanup(app) == [timer |-> FALSE, tray |-> <<>>]

\* quit_application, _on_quit, _on_exit_app_requested: cleanup(), then
\* QApplication.quit(), which makes qt_app.exec() return
QuitApplication(p) ==
    /\ procs[p].pc = "exec"
    /\ LET c == cleanup([timer |-> procs[p].timer, tray |-> tray_icons])
       IN  /\ tray_icons' = c.tray
           /\ procs' = [procs EXCEPT ![p].timer = c.timer, ![p].pc = "quitting"]
    /\ last' = Call("quit_application", TRUE)
    /\ Silent
    /\ UNCHANGED <<cfgvars, fsvars, shared_memory, last_notification, now, rule_file,
                   last_sent>>

\* main() after qt_app.exec(): cleanup() once more, the IPC server closed
MainCleanup(p) ==
    /\ procs[p].pc = "quitting"
    /\ LET c == cleanup([timer |-> procs[p].timer, tray |-> tray_icons])
       IN  /\ tray_icons' = c.tray
           /\ procs' = [procs EXCEPT ![p].timer = c.timer, ![p].pc = "closed",
                                     ![p].listening = FALSE]
    /\ last' = Call("cleanup", TRUE)
    /\ Silent
    /\ UNCHANGED <<cfgvars, fsvars, shared_memory, last_notification, now, rule_file,
                   last_sent>>

\* main() returns the exit code; its finally clause detaches the segment
Return(p) ==
    /\ procs[p].pc = "closed"
    /\ procs' = [procs EXCEPT ![p].pc = "exited", ![p].exit_code = 0,
                              ![p].window = FALSE]
    /\ shared_memory' = NoSegment
    /\ AppGone
    /\ last' = Call("return", TRUE)
    /\ Silent
    /\ UNCHANGED <<file, fsvars, now, rule_file>>

QuitStatuses == {"inactive", "active"}

QuitInit == Initialize({TwoNginxFile}, QuitStatuses, {FALSE})

QuitNext ==
    \/ \E q \in Queries(QuitStatuses) : Tick(q)
    \/ AdvanceTime
    \/ \E p \in Procs : QuitApplication(p)
    \/ \E p \in Procs : MainCleanup(p)
    \/ \E p \in Procs : Return(p)

SpecQuit == QuitInit /\ [][QuitNext]_vars

(***************************************************************************)
(* Saving step by step: save_config as the operating system sees it, with  *)
(* a process that can be killed between any two steps and started again.   *)
(***************************************************************************)
\* what a file holds while a document is being written to it: nothing yet,
\* a text cut in the middle of a token, or the text up to the settings
Cut(f) ==
    {EmptyFile, GarbageFile,
     [f EXCEPT !.data.keys = {"version", "services"},
               !.data.settings = [isMap |-> TRUE, map |-> <<>>]]}

\* open(..., 'w') of save_config: a mutant that opens the config file itself,
\* and the code, which opens the temporary file and so truncates it
open_in_place(f, t) == [file |-> EmptyFile, temp |-> t]

open_for_write(f, t) == [file |-> f, temp |-> EmptyFile]

SaveStep(pc, step) ==
    /\ saving.pc = pc
    /\ last' = Call(step, TRUE)
    /\ UNCHANGED <<services, settings, appvars>>

\* a mutation has changed the registry in memory and calls save_config
BeginSave(op, svcs, sets) ==
    /\ saving.pc = "idle"
    /\ services' = svcs
    /\ settings' = sets
    /\ saving' = Saving("backup", op)
    /\ last' = Call("begin_save", TRUE)
    /\ UNCHANGED <<file, backup, temp, appvars>>

\* shutil.copy2 when there is a config file: the backup is opened for
\* writing and filled
BeginBackup(part) ==
    /\ SaveStep("backup", "copy2")
    /\ backup' = IF file.exists THEN part ELSE backup
    /\ saving' = [saving EXCEPT !.pc = IF file.exists THEN "copy" ELSE "open"]
    /\ UNCHANGED <<file, temp>>

EndBackup ==
    /\ SaveStep("copy", "copy2")
    /\ backup' = copy_backup(file, backup)
    /\ saving' = [saving EXCEPT !.pc = "open"]
    /\ UNCHANGED <<file, temp>>

OpenTemp ==
    /\ SaveStep("open", "open")
    /\ file' = open_for_write(file, temp).file
    /\ temp' = open_for_write(file, temp).temp
    /\ saving' = [saving EXCEPT !.pc = "dump"]
    /\ UNCHANGED backup

\* yaml.dump has written a part of the document
Dump(part) ==
    /\ SaveStep("dump", "dump")
    /\ temp' = part
    /\ saving' = [saving EXCEPT !.pc = "close"]
    /\ UNCHANGED <<file, backup>>

\* the rest is written and the file closed
CloseTemp ==
    /\ SaveStep("close", "close")
    /\ temp' = save_config(services, settings)
    /\ saving' = [saving EXCEPT !.pc = "replace"]
    /\ UNCHANGED <<file, backup>>

\* temp_file.replace(CONFIG_FILE), a rename; save_config and the mutation
\* return
Replace ==
    /\ saving.pc = "replace"
    /\ file' = temp
    /\ temp' = MissingFile
    /\ saving' = NotSaving
    /\ last' = Call(saving.op, TRUE)
    /\ UNCHANGED <<services, settings, backup, appvars>>

\* the process is killed inside save_config: its memory is gone, the files
\* stay as they are
KillSaving ==
    /\ saving.pc \notin {"idle", "dead"}
    /\ services' = <<>>
    /\ settings' = <<>>
    /\ saving' = Saving("dead", None)
    /\ last' = Call("kill", TRUE)
    /\ UNCHANGED <<file, backup, temp, appvars>>

\* a new process: ConfigManager() and load_config
Restart ==
    /\ saving.pc = "dead"
    /\ services' = load_config(file).services
    /\ settings' = load_config(file).settings
    /\ saving' = NotSaving
    /\ last' = Call("load_config", load_config(file).ok)
    /\ UNCHANGED <<file, backup, temp, appvars>>

SaveInit == InitFrom({MissingFile, PartialSettingsFile})

SaveNext ==
    \/ \E s \in LoadInputs :
           /\ add_service(services, s).save
           /\ BeginSave("add_service", add_service(services, s).services, settings)
    \/ \E k \in Keys :
           /\ remove_service(services, k[1], k[2]).save
           /\ BeginSave("remove_service", remove_service(services, k[1], k[2]).services,
                        settings)
    \/ \E v \in BOOLEAN :
           BeginSave("set_setting", services, set_setting(settings, "show_notifications", v))
    \/ \E part \in Cut(file) : BeginBackup(part)
    \/ EndBackup
    \/ OpenTemp
    \/ \E part \in Cut(save_config(services, settings)) : Dump(part)
    \/ CloseTemp
    \/ Replace
    \/ KillSaving
    \/ Restart

SpecSave == SaveInit /\ [][SaveNext]_vars

(***************************************************************************)
(* Asking systemd for a status (ServiceStatus.from_string and              *)
(* ServiceManager.get_service_status).                                     *)
(***************************************************************************)
UpperCase ==
    <<"A", "B", "C", "D", "E", "F", "G", "H", "I", "J", "K", "L", "M",
      "N", "O", "P", "Q", "R", "S", "T", "U", "V", "W", "X", "Y", "Z">>

LowerCase ==
    <<"a", "b", "c", "d", "e", "f", "g", "h", "i", "j", "k", "l", "m",
      "n", "o", "p", "q", "r", "s", "t", "u", "v", "w", "x", "y", "z">>

\* str.lower of a text of single characters
lower(text) ==
    [i \in DOMAIN text |->
        IF \E j \in DOMAIN UpperCase : UpperCase[j] = text[i]
        THEN LowerCase[CHOOSE j \in DOMAIN UpperCase : UpperCase[j] = text[i]]
        ELSE text[i]]

upper(text) ==
    [i \in DOMAIN text |->
        IF \E j \in DOMAIN LowerCase : LowerCase[j] = text[i]
        THEN UpperCase[CHOOSE j \in DOMAIN LowerCase : LowerCase[j] = text[i]]
        ELSE text[i]]

\* the value of each member of ServiceStatus, character by character
Value(status) ==
    CASE status = "active" -> <<"a", "c", "t", "i", "v", "e">>
      [] status = "inactive" -> <<"i", "n", "a", "c", "t", "i", "v", "e">>
      [] status = "failed" -> <<"f", "a", "i", "l", "e", "d">>
      [] status = "activating" -> <<"a", "c", "t", "i", "v", "a", "t", "i", "n", "g">>
      [] status = "deactivating" ->
             <<"d", "e", "a", "c", "t", "i", "v", "a", "t", "i", "n", "g">>
      [] status = "unknown" -> <<"u", "n", "k", "n", "o", "w", "n">>

\* cls(value): the member with that value, ValueError (None here) without one
ByValue(text) ==
    IF \E s \in ServiceStatus : Value(s) = text
    THEN CHOOSE s \in ServiceStatus : Value(s) = text
    ELSE None

\* a mutant of from_string that looks the string up as it is
from_string_exact(status_str) ==
    IF ByValue(status_str) = None THEN "unknown" ELSE ByValue(status_str)

from_string(status_str) ==
    IF ByValue(lower(status_str)) = None THEN "unknown" ELSE ByValue(lower(status_str))

\* strings given to from_string: the six values, the same capitalised and in
\* capitals, the other two values of ActiveState, a value with a newline
\* left on it, and the empty string
Capitalized(text) == <<upper(text)[1]>> \o Tail(text)

StatusStrings ==
    {Value(s) : s \in ServiceStatus}
    \cup {upper(Value(s)) : s \in ServiceStatus}
    \cup {Capitalized(Value(s)) : s \in ServiceStatus}
    \cup {<<"r", "e", "l", "o", "a", "d", "i", "n", "g">>,
          <<"m", "a", "i", "n", "t", "e", "n", "a", "n", "c", "e">>,
          <<"a", "c", "t", "i", "v", "e", "\n">>,
          <<>>}

\* what 'systemctl show <unit> --property=ActiveState --value' can print
StatusOutputs ==
    {Value(s) \o <<"\n">> : s \in ServiceStatus}
    \cup {<<"r", "e", "l", "o", "a", "d", "i", "n", "g", "\n">>,
          <<"A", "c", "t", "i", "v", "e", "\n">>,
          <<" ", "f", "a", "i", "l", "e", "d", " ", "\n">>,
          <<"\n">>, <<>>}

\* how subprocess.run of the status command ends, and what it captured
StatusOutcomes ==
    [kind : {"ok", "nonzero", "timeout", "oserror"}, stdout : StatusOutputs]

status_argv(service_name, is_user_service) ==
    <<"systemctl">> \o (IF is_user_service THEN <<"--user">> ELSE <<>>)
    \o <<"show", service_name, "--property=ActiveState", "--value">>

\* a mutant of get_service_status that runs the command without check=True
get_service_status_unchecked(service_name, is_user_service, o) ==
    IF o.kind \in {"ok", "nonzero"} THEN from_string(Strip(o.stdout)) ELSE "unknown"

get_service_status(service_name, is_user_service, o) ==
    IF o.kind = "ok" THEN from_string(Strip(o.stdout)) ELSE "unknown"

Idle ==
    UNCHANGED <<cfgvars, fsvars, procvars, tray_icons, last_notification, now,
                rule_file, last_sent>>

FromString(status_str) ==
    /\ last' = Call("from_string", from_string(status_str))
    /\ commands' = <<[action |-> "from_string", text |-> status_str]>>
    /\ queried' = {}
    /\ notified' = <<>>
    /\ Idle

GetServiceStatus(service_name, is_user_service, o) ==
    /\ last' = Call("get_service_status",
                    get_service_status(service_name, is_user_service, o))
    /\ commands' = <<[action |-> "status",
                      argv |-> status_argv(service_name, is_user_service),
                      kind |-> o.kind, stdout |-> o.stdout]>>
    /\ queried' = {<<service_name, IF is_user_service THEN "user" ELSE "system">>}
    /\ notified' = <<>>
    /\ Idle

StatusInit == InitFrom({MissingFile})

StatusNext ==
    \/ \E text \in StatusStrings : FromString(text)
    \/ \E name \in Names, is_user \in BOOLEAN, o \in StatusOutcomes :
           GetServiceStatus(name, is_user, o)

SpecStatus == StatusInit /\ [][StatusNext]_vars

(***************************************************************************)
(* Claims about the registry.                                              *)
(***************************************************************************)
Mutations == {"add_service", "remove_service", "update_service", "set_setting"}

\* the last call changed the registry and so saved it
Saved == last.op \in Mutations /\ last.result

\* C1 as stated: after a mutation, loading the persisted file gives a
\* service list and settings equal to the ones in memory, field by field,
\* icon_light and icon_dark included.
C1_RoundTripExact ==
    Saved => /\ load_config(file).services = services
             /\ load_config(file).settings = settings

\* what a theme icon is after a save and a load: kept when it is set and
\* differs from the base icon, None otherwise
Reloaded(theme_icon, icon) ==
    IF theme_icon \in {None, "", icon} THEN None ELSE theme_icon

\* C1 amended: after a mutation, loading the persisted file succeeds and gives
\* settings equal to the ones in memory and a service list of the same length
\* and order, each record equal in every field except that an icon_light or
\* icon_dark which is empty or equal to the record's icon is loaded as None;
\* the icon of either theme is the same.
C1_RoundTripUpToThemeIcons ==
    Saved =>
        LET l == load_config(file)
        IN  /\ l.ok
            /\ l.settings = settings
            /\ Len(l.services) = Len(services)
            /\ \A i \in 1..Len(services) :
                   /\ l.services[i] =
                        [services[i] EXCEPT
                            !.icon_light = Reloaded(@, services[i].icon),
                            !.icon_dark = Reloaded(@, services[i].icon)]
                   /\ \A dark \in BOOLEAN :
                        get_icon_for_theme(l.services[i], dark)
                            = get_icon_for_theme(services[i], dark)

\* a saved registry with a record whose icon_light is its base icon and whose
\* icon_dark is another icon: the first is loaded as None, the second kept
C1_Witness ==
    /\ Saved
    /\ \E i \in 1..Len(services) :
           /\ services[i].icon_light = services[i].icon
           /\ services[i].icon_dark = "moon"
           /\ i \in 1..Len(load_config(file).services)
           /\ load_config(file).services[i].icon_light = None
           /\ load_config(file).services[i].icon_dark = "moon"

\* C2: add_service with a record whose (name, service_type) is already in the
\* registry returns False and leaves the service list, the settings and the
\* config file as they were.
C2_DuplicateAddRejected ==
    [][\A s \in ConfigInputs :
          (HasKey(services, s.name, s.service_type) /\ AddService(s))
              => (last'.result = FALSE /\ UNCHANGED cfgvars)]_vars

\* a rejected add_service on a registry that holds a record
C2_Witness ==
    last.op = "add_service" /\ ~last.result /\ Len(services) = 1

\* C3: remove_service with a key that is not in the registry returns False and
\* leaves the service list (contents and order), the settings and the config
\* file as they were.
C3_RemoveMissingNoChange ==
    [][\A k \in Keys :
          (~HasKey(services, k[1], k[2]) /\ RemoveService(k[1], k[2]))
              => (last'.result = FALSE /\ UNCHANGED cfgvars)]_vars

\* a remove_service that found nothing in a registry of two records
C3_Witness ==
    last.op = "remove_service" /\ ~last.result /\ Len(services) = 2

\* C4 as stated: no two records of the registry share (name, service_type).
C4_UniqueKeys ==
    \A i, j \in 1..Len(services) :
        SameKey(services[i], services[j].name, services[j].service_type) => i = j

\* the files C5 is about: missing, empty, not parseable, top level not a
\* mapping, services not a list, settings not a mapping
BadFile(f) ==
    \/ ~f.exists
    \/ f.data.parse = "error"
    \/ f.data.top = "null"
    \/ f.data.top # "mapping"
    \/ "services" \in f.data.keys /\ ~f.data.services.isList
    \/ "settings" \in f.data.keys /\ ~f.data.settings.isMap

\* C5: load_config on such a file returns False and leaves an empty service
\* list and exactly the default settings, whatever was in memory before.
C5_BadFileLoadsDefaults ==
    [][(BadFile(file) /\ LoadConfig)
          => /\ last'.result = FALSE
             /\ services' = <<>>
             /\ settings' = DefaultSettings]_vars

\* a failed load of a file whose settings are no mapping
C5_Witness ==
    /\ last.op = "load_config" /\ ~last.result
    /\ file.exists /\ "settings" \in file.data.keys /\ ~file.data.settings.isMap
    /\ services = <<>> /\ settings = DefaultSettings

(***************************************************************************)
(* Claims about the notifier, the poller and the service controller.       *)
(***************************************************************************)
StatusKinds == {"started", "stopped", "failed"}

\* no status notification was sent for the key in the last 30 seconds
Quiet(key) ==
    key \notin DOMAIN last_sent \/ now - last_sent[key] >= NOTIFICATION_RATE_LIMIT

\* C6: once a status notification was sent for a key at time t, a request of
\* a status notification for that key is suppressed before t + 30 and sent
\* from t + 30 on.
C6_RateLimitPerKey ==
    [][\A i \in DOMAIN notified' :
           (notified'[i].kind \in StatusKinds /\ notified'[i].key \in DOMAIN last_sent)
           => (notified'[i].sent <=> Quiet(notified'[i].key))]_vars

StartedSent(notes, key) ==
    {j \in DOMAIN notes :
         notes[j].key = key /\ notes[j].kind = "started" /\ notes[j].sent}

\* C7: a tick that finds an enabled tracked service cached inactive and
\* queried active, with notifications on and none sent for it in the last 30
\* seconds, emits exactly one 'started' notification for it and caches active;
\* a tick that finds it cached active and queried active emits nothing for it.
C7_StartedOnce ==
    [][\A q \in Queries(ServiceStatus) : Tick(q) =>
           \A i \in DOMAIN tray_icons :
               LET e == tray_icons[i]
               IN  /\ ( /\ e.status = "inactive" /\ q[e.key] = "active"
                        /\ e.key \in EnabledKeys(services)
                        /\ show_notifications /\ Quiet(e.key) )
                      => /\ Cardinality(StartedSent(notified', e.key)) = 1
                         /\ tray_icons'[i].status = "active"
                   /\ (e.status = "active" /\ q[e.key] = "active")
                      => \A j \in DOMAIN notified' : notified'[j].key # e.key]_vars

\* a start of a system service, asked by the user while the passwordless
\* setting is off, whose command exits non-zero
FailedSystemStart(k, o, q) ==
    /\ OnStartRequested(k, o, q)
    /\ k[2] = "system"
    /\ ~is_passwordless_enabled(settings)
    /\ o.kind = "nonzero"

\* C8 as stated: such a start runs under pkexec, returns (False, stderr) and
\* leaves the cached statuses as they were.
C8_FailedStartKeepsCache ==
    [][\A k \in AppKeys, o \in Outcomes, q \in Queries(ControlStatuses) :
           FailedSystemStart(k, o, q)
           => /\ Head(commands'[1].argv) = "pkexec"
              /\ ~commands'[1].ok
              /\ commands'[1].error = o.stderr
              /\ tray_icons' = tray_icons]_vars

\* e is s without the whitespace at its ends
IsStripped(e, s) ==
    \E a, b \in 0..Len(s) :
        /\ a + b <= Len(s)
        /\ e = SubSeq(s, a + 1, Len(s) - b)
        /\ \A i \in 1..a : s[i] \in Whitespace
        /\ \A i \in (Len(s) - b + 1)..Len(s) : s[i] \in Whitespace
        /\ e = <<>> \/ (e[1] \notin Whitespace /\ e[Len(e)] \notin Whitespace)

\* C8, amended: such a start runs pkexec systemctl start <name> and returns
\* False with the stripped stderr, or with "Failed to start <name>" when
\* stderr is empty; the handler then refreshes the cache at once: every
\* tracked key is queried and its cached status is the queried one.
C8_FailedStartRefreshesCache ==
    [][\A k \in AppKeys, o \in Outcomes, q \in Queries(ControlStatuses) :
           FailedSystemStart(k, o, q)
           => /\ commands'[1].argv = <<"pkexec", "systemctl", "start", k[1]>>
              /\ ~commands'[1].ok
              /\ IF o.stderr = <<>>
                 THEN commands'[1].error = <<"Failed to ", "start", " ", k[1]>>
                 ELSE IsStripped(commands'[1].error, o.stderr)
              /\ queried' = TrackedKeys(tray_icons)
              /\ \A i \in DOMAIN tray_icons' :
                     tray_icons'[i].status = q[tray_icons'[i].key]]_vars

C8_Witness ==
    /\ last = Call("start", FALSE)
    /\ ~is_passwordless_enabled(settings)
    /\ commands = <<[action |-> "start", name |-> "nginx", is_user |-> FALSE,
                     argv |-> <<"pkexec", "systemctl", "start", "nginx">>,
                     ok |-> FALSE, error |-> <<"n", "o">>]>>
    /\ queried = {<<"nginx", "system">>}
    /\ tray_icons = <<[key |-> <<"nginx", "system">>, status |-> "failed"]>>

C10_TickQueriesEnabled ==
    last.op = "tick" => queried = EnabledKeys(services)

\* the status changes that ask for a notification
Notable(old_status, new_status) ==
    \/ new_status = "active"
    \/ old_status = "active" /\ new_status = "inactive"
    \/ new_status = "failed"

Requests(notes, key) ==
    {j \in DOMAIN notes : notes[j].key = key /\ notes[j].kind \in StatusKinds}

\* the statuses a tick was answered, read from the cache it left
Observed(tray) ==
    [k \in TrackedKeys(tray) |->
        (CHOOSE e \in {tray[i] : i \in DOMAIN tray} : e.key = k).status]

\* C11: on a tick with notifications on, a status notification is requested
\* for a changed status exactly when the new status is active, or the old is
\* active and the new inactive, or the new is failed; every change is cached,
\* and an unchanged status asks for nothing.
C11_NotableTransitions ==
    [][(last'.op = "tick" /\ show_notifications /\ Tick(Observed(tray_icons'))) =>
           \A i \in DOMAIN tray_icons :
               LET e == tray_icons[i]
                   new_status == Observed(tray_icons')[e.key]
               IN  /\ tray_icons'[i].key = e.key
                   /\ Requests(notified', e.key) # {}
                      <=> (e.status # new_status /\ Notable(e.status, new_status))]_vars

C11_Witness ==
    /\ last.op = "tick"
    /\ show_notifications
    /\ tray_icons = <<[key |-> <<"nginx", "user">>, status |-> "failed"],
                      [key |-> <<"nginx", "system">>, status |-> "deactivating"]>>
    /\ notified = <<[key |-> <<"nginx", "user">>, kind |-> "failed", sent |-> TRUE]>>

Toggles == {"enable_passwordless_mode", "disable_passwordless_mode"}

\* C12: a passwordless toggle, however it ends, that starts with the
\* passwordless_mode setting (the value the controller decides on) equal to
\* the presence of the rule file ends with them equal; so they are equal after
\* any sequence of toggles.
C12_SettingMirrorsRuleFile ==
    [][(last'.op \in Toggles /\ (is_passwordless_enabled(settings) <=> rule_file))
       => (is_passwordless_enabled(settings') <=> rule_file')]_vars

(***************************************************************************)
(* Claims about starting, saving and loading.                              *)
(***************************************************************************)
\* the processes past a successful check_single_instance and still running
Holders == {p \in Procs : procs[p].pc \in {"construct", "ipc", "exec"}}

\* C13: however the processes interleave, at most one at a time is past a
\* successful single-instance check, so at most one has the application
\* constructed; a process whose check failed never constructs it, and leaves
\* with exit code 0 once it has sent the show-window message or used up its
\* attempts.
C13_SingleInstance ==
    /\ [](Cardinality(Holders) <= 1)
    /\ [][\A p \in Procs :
             /\ (procs[p].pc = "check" /\ procs'[p].pc = "construct")
                    => (Holders = {} /\ shared_memory' = Segment(p))
             /\ procs[p].pc = "signal"
                    => /\ procs'[p].pc \in {"signal", "exited", "killed"}
                       /\ ~procs'[p].constructed
                       /\ procs'[p].pc = "exited"
                              => /\ procs'[p].exit_code = 0
                                 /\ \/ last'.result /\ \E l \in Listeners : procs'[l].window
                                    \/ procs'[p].attempts = max_retries]_vars

\* the first process runs the application and shows its window, the second
\* has failed the check, sent the message and left with 0
C13_Witness ==
    /\ procs[1].pc = "exec" /\ procs[1].constructed /\ procs[1].window
    /\ procs[2] = Proc("exited", FALSE, FALSE, FALSE, 2, 100, 1, 0)
    /\ last = Call("send_show_window_signal", TRUE)

\* C14: no step of save_config, and no kill between two of its steps, leaves
\* the config file in another state than the one it had (the complete
\* previous version) or, by the final rename, the complete document of the
\* registry being saved; a process started after a kill loads one of the two.
C14_FileOldOrNew ==
    /\ [][\/ file' = file
          \/ saving.pc = "replace" /\ file' = save_config(services, settings)]_vars
    /\ [][Restart => \/ ~file.exists /\ ~last'.result
                     \/ file.exists /\ file = save_config(services', settings')
                     \/ file = PartialSettingsFile /\ last'.result]_vars

\* killed while yaml.dump was writing: the temporary file is cut, the config
\* file still holds the version before the save and the backup a copy of it
C14_Witness ==
    /\ saving.pc = "dead"
    /\ temp = GarbageFile
    /\ file = save_config(<<>>, [DefaultSettings EXCEPT !.show_notifications = FALSE])
    /\ backup = file

C16_StatusOrUnknown ==
    last.op = "get_service_status" =>
        /\ last.result \in ServiceStatus
        /\ commands[1].kind # "ok" => last.result = "unknown"
        /\ commands[1].kind = "ok" => last.result = from_string(Strip(commands[1].stdout))
        /\ \A s \in ServiceStatus :
               (commands[1].kind = "ok" /\ commands[1].stdout = Value(s) \o <<"\n">>)
                   => last.result = s

\* the command exited non-zero after printing 'active': unknown
C16_Witness ==
    /\ last.op = "get_service_status"
    /\ last.result = "unknown"
    /\ commands[1].kind = "nonzero"
    /\ commands[1].stdout = Value("active") \o <<"\n">>
    /\ commands[1].argv = <<"systemctl", "show", "nginx", "--property=ActiveState", "--value">>

\* C17 as stated: from_string gives the member for each of the six values
\* and unknown for every other string.
C17_UnknownForEveryOtherString ==
    last.op = "from_string" =>
        LET text == commands[1].text
        IN  /\ \A s \in ServiceStatus : text = Value(s) => last.result = s
            /\ (\A s \in ServiceStatus : text # Value(s)) => last.result = "unknown"

\* C17 amended: from_string gives the member whose value is the string put
\* in lower case, so the six values and every other casing of them give
\* their member, and unknown when the lower-cased string is none of the six.
C17_MemberOfLowerCased ==
    last.op = "from_string" =>
        LET text == commands[1].text
        IN  /\ \A s \in ServiceStatus : text = Value(s) => last.result = s
            /\ \A s \in ServiceStatus : lower(text) = Value(s) => last.result = s
            /\ (\A s \in ServiceStatus : lower(text) # Value(s))
                   => last.result = "unknown"

\* 'ACTIVE' gave active
C17_Witness ==
    /\ last.op = "from_string"
    /\ last.result = "active"
    /\ commands[1].text = <<"A", "C", "T", "I", "V", "E">>

\* the settings a config file holds, none if it holds no mapping of settings
FileSettings(f) ==
    IF /\ f.exists /\ f.data.parse = "ok" /\ f.data.top = "mapping"
       /\ "settings" \in f.data.keys /\ f.data.settings.isMap
    THEN f.data.settings.map ELSE <<>>

\* every default key is set: to the file's value if the file has the key,
\* to the default otherwise
FileOverDefaults(sets, f) ==
    \A k \in DOMAIN DefaultSettings :
        /\ k \in DOMAIN sets
        /\ sets[k] = IF k \in DOMAIN FileSettings(f)
                     THEN FileSettings(f)[k] ELSE DefaultSettings[k]

\* C18 as stated: after load_config, whatever it returned, every default key
\* is in the settings, with the file's value if the file has the key and the
\* default otherwise.
C18_FileValueEitherResult ==
    last.op = "load_config" => FileOverDefaults(settings, file)

\* C18 amended: after load_config every default key is in the settings; after
\* a load that returned True a key of the file's settings has the file's value
\* and every other default key its default; after a load that returned False
\* the settings are exactly the defaults, whatever settings the file holds.
C18_FileValueOnSuccess ==
    last.op = "load_config" =>
        /\ DOMAIN DefaultSettings \subseteq DOMAIN settings
        /\ last.result => /\ FileOverDefaults(settings, file)
                          /\ DOMAIN settings = DOMAIN DefaultSettings
                                                 \cup DOMAIN FileSettings(file)
        /\ ~last.result => settings = DefaultSettings

\* a successful load of a file with two of the five settings
C18_Witness ==
    /\ last.op = "load_config" /\ last.result
    /\ file = PartialSettingsFile
    /\ settings = [update_interval |-> 10, show_notifications |-> FALSE,
                   minimize_to_tray |-> FALSE, passwordless_mode |-> FALSE,
                   show_main_tray |-> TRUE]

\* C19: a tick leaves the service list with every field of every record, the
\* settings, the config file and the files beside it as they were; in the
\* application it changes nothing but the status cached for each tracked key,
\* for the keys tracked before in the same order, and the rate-limit map, and
\* that only for names of tracked services.
C19_TickFrame ==
    [][last'.op = "tick" =>
          /\ UNCHANGED <<services, settings, file, backup, temp, rule_file, now>>
          /\ [i \in DOMAIN tray_icons' |-> tray_icons'[i].key]
                 = [i \in DOMAIN tray_icons |-> tray_icons[i].key]
          /\ \A n \in DOMAIN last_notification' :
                 \/ n \in DOMAIN last_notification
                    /\ last_notification'[n] = last_notification[n]
                 \/ last_notification'[n] = now
                    /\ \E k \in TrackedKeys(tray_icons) : k[1] = n]_vars

\* a tick that changed a cached status and the rate-limit map, with a registry
\* of two records saved before with notifications on
C19_Witness ==
    /\ last.op = "tick"
    /\ Len(services) = 2
    /\ file = save_config(services, settings)
    /\ show_notifications
    /\ notified # <<>>
    /\ "nginx" \in DOMAIN last_notification
    /\ last_notification["nginx"] = now
    /\ now > StartTime

\* C20: a removal answered Yes leaves no record and no tracked entry with the
\* key, saves the registry and runs no command; answered No it leaves the
\* registry, the files, the tracked entries and the rate-limit map as they
\* were and runs no command. A tick queries the tracked keys and no other, and
\* a key becomes tracked only by adding a service: so after the removal no
\* tick queries the key.
C20_RemovalUntracks ==
    [][/\ \A k \in AppKeys :
             /\ OnRemoveRequested(k, "Yes")
                    => /\ k \notin RegistryKeys(services')
                       /\ k \notin TrackedKeys(tray_icons')
                       /\ \A j \in AppKeys \ {k} :
                              /\ j \in RegistryKeys(services') <=> j \in RegistryKeys(services)
                              /\ j \in TrackedKeys(tray_icons') <=> j \in TrackedKeys(tray_icons)
                       /\ (k \in RegistryKeys(services)
                              => file' = save_config(services', settings'))
                       /\ commands' = <<>>
                       /\ queried' = {}
             /\ OnRemoveRequested(k, "No")
                    => /\ UNCHANGED <<services, settings, file, backup, tray_icons,
                                      last_notification>>
                       /\ commands' = <<>>
                       /\ queried' = {}
             /\ (k \in TrackedKeys(tray_icons') /\ k \notin TrackedKeys(tray_icons))
                    => (last'.op = "add_service" /\ last'.result)
       /\ last'.op = "tick" => queried' = TrackedKeys(tray_icons)]_vars

\* the tracked user service of the saved registry was removed: the record of
\* the hidden system service is left, nothing is tracked
C20_Witness ==
    /\ last.op = "remove_service" /\ last.result
    /\ backup = HiddenFile
    /\ RegistryKeys(services) = {<<"nginx", "system">>}
    /\ tray_icons = <<>>
    /\ file = save_config(services, settings)

(***************************************************************************)
(* Claims of the last sitting: retries, launch, errors, elevation, the     *)
(* rate limiter, ticks, auto-start and cleanup.                            *)
(***************************************************************************)
\* C21: a process in send_show_window_signal makes one attempt per step and
\* five at most; an attempt that connects writes the message, once, and is
\* the last; after a failed attempt that is not the fifth the process sleeps
\* longer than after the one before; after the fifth failed attempt it has
\* sent nothing and leaves with 0; and a process in send_show_window_signal
\* leaves it.
C21_BoundedRetries ==
    /\ [][\A p \in Procs :
             (procs[p].pc = "signal" /\ procs'[p] # procs[p] /\ procs'[p].pc # "killed")
                 => /\ procs'[p].attempts = procs[p].attempts + 1
                    /\ procs'[p].attempts <= max_retries
                    /\ procs'[p].sent \in {0, 1}
                    /\ last'.result
                          => /\ procs'[p].sent = 1 /\ procs[p].sent = 0
                             /\ procs'[p].pc = "exited"
                             /\ procs'[p].delay = procs[p].delay
                    /\ ~last'.result
                          => /\ procs'[p].sent = 0
                             /\ procs'[p].attempts < max_retries
                                   => /\ procs'[p].pc = "signal"
                                      /\ procs'[p].delay > procs[p].delay
                             /\ procs'[p].attempts = max_retries
                                   => /\ procs'[p].pc = "exited"
                                      /\ procs'[p].exit_code = 0
                                      /\ procs'[p].delay = procs[p].delay]_vars
    /\ \A p \in Procs : procs[p].pc = "signal" ~> procs[p].pc \in {"exited", "killed"}

\* five attempts failed: four sleeps, the last of a second, nothing sent
C21_Witness ==
    /\ procs[2] = Proc("exited", FALSE, FALSE, FALSE, 5, 1000, 0, 0)
    /\ last = Call("send_show_window_signal", FALSE)

\* C22: when main() has set up a fresh application, its window is shown
\* exactly if --show-window was given, or neither --startup was given nor the
\* minimize_to_tray setting is true: --show-window shows it whatever the
\* other two are, and without it --startup hides it whatever the setting is.
C22_WindowAtStartup ==
    [][\A p \in Procs, listens \in BOOLEAN, args \in Launches :
           SetupIpcServer(p, listens, args)
               => LET minimize == Get(settings, "minimize_to_tray", FALSE)
                  IN  /\ procs'[p].window
                         <=> (args.show_window \/ (~args.startup /\ ~minimize))
                      /\ args.show_window => procs'[p].window
                      /\ (~args.show_window /\ args.startup) => ~procs'[p].window
                      /\ (~args.show_window /\ ~args.startup)
                             => (procs'[p].window <=> ~minimize)]_vars

\* the window is up although minimize_to_tray is true: --show-window was given
C22_Witness ==
    /\ last.op = "setup_ipc_server"
    /\ settings = [DefaultSettings EXCEPT !.minimize_to_tray = TRUE]
    /\ \E p \in Procs : procs[p].pc = "exec" /\ procs[p].window

\* the three actions of the service menu
Lifecycle == {"start", "stop", "restart"}

\* the step is the handler of action a for key k, answered o and then q
LifecycleStep(a, k, o, q) ==
    CASE a = "start" -> OnStartRequested(k, o, q)
      [] a = "stop" -> OnStopRequested(k, o, q)
      [] OTHER -> OnRestartRequested(k, o, q)

\* C23: a start, stop or restart whose command timed out or exited non-zero
\* returns ok = False and a non-empty error text, and the text of a timeout is
\* not the text of a non-zero exit.
C23_FailureHasItsOwnText ==
    [][\A a \in Lifecycle, k \in AppKeys, o \in Outcomes :
           (o.kind \in {"timeout", "nonzero"} /\ LifecycleStep(a, k, o, Observed(tray_icons')))
           => LET timed_out == execute_systemctl_action(a, k[1], k[2] = "user", settings,
                                   [kind |-> "timeout", stderr |-> <<>>])
              IN  /\ ~commands'[1].ok
                  /\ commands'[1].error # <<>>
                  /\ ~timed_out.ok
                  /\ timed_out.error # <<>>
                  /\ o.kind = "nonzero" => commands'[1].error # timed_out.error]_vars

\* the commands of the last step that went through pkexec
Elevated == {i \in DOMAIN commands : Head(commands[i].argv) = "pkexec"}

\* C24: one passwordless toggle, an enable or a disable, makes exactly one
\* request through pkexec.
C24_OneElevatedRequestPerToggle ==
    last.op \in Toggles => Cardinality(Elevated) = 1

\* C25: the rate limit is kept per key (name, service_type): a status
\* request is suppressed only by a notification sent for its own key less
\* than 30 seconds before, never by one sent for another key, be it the
\* record of the same name and the other service_type.
C25_OtherKeyNeverSuppresses ==
    \A i \in DOMAIN notified :
        (notified[i].kind \in StatusKinds /\ ~notified[i].sent)
        => /\ notified[i].key \in DOMAIN last_sent
           /\ now - last_sent[notified[i].key] < NOTIFICATION_RATE_LIMIT

\* C26: whatever the queries of a tick are answered, unknown (a timeout, a
\* non-zero exit, an unrecognised word) included, the pass is defined, keeps
\* the tracked keys and leaves every key cached with the answer to its own
\* query; a tick step queries every tracked key and is such a pass.
C26_EveryServiceGetsItsOwnStatus ==
    /\ [](\A q \in Queries(ServiceStatus) :
              LET r == update_all_services(tray_icons, last_notification, <<>>,
                                           last_sent, q, show_notifications, now)
              IN  /\ Len(r.tray) = Len(tray_icons)
                  /\ \A i \in DOMAIN tray_icons :
                         /\ r.tray[i].key = tray_icons[i].key
                         /\ r.tray[i].status = q[tray_icons[i].key])
    /\ [][last'.op = "tick"
          => /\ queried' = TrackedKeys(tray_icons)
             /\ TrackedKeys(tray_icons') = TrackedKeys(tray_icons)
             /\ Tick(Observed(tray_icons'))]_vars

\* a tick in which the query of (nginx, user) came back unknown and the one of
\* (nginx, system) active: both are cached as answered
C26_Witness ==
    /\ last.op = "tick"
    /\ queried = {<<"nginx", "user">>, <<"nginx", "system">>}
    /\ tray_icons = <<[key |-> <<"nginx", "user">>, status |-> "unknown"],
                      [key |-> <<"nginx", "system">>, status |-> "active"]>>
    /\ \E i \in DOMAIN notified : notified[i].key = <<"nginx", "system">>

\* the start commands of the last step for the i-th record of the registry
StartsOf(i) ==
    {j \in DOMAIN commands :
         /\ commands[j].action = "start"
         /\ commands[j].name = services[i].name
         /\ commands[j].is_user = (services[i].service_type = "user")}

\* C27: when the application has been initialized, one start command has been
\* issued for every record with auto_start, shown or hidden, and none for any
\* other record, whatever the earlier of these commands returned; the status
\* of every enabled record has been queried and cached by then, and the ticks
\* that follow issue no start command.
C27_AutoStartOncePerRecord ==
    /\ [](last.op = "initialize"
           => /\ \A i \in DOMAIN services :
                     Cardinality(StartsOf(i)) = IF services[i].auto_start THEN 1 ELSE 0
              /\ Len(commands) = Cardinality(AutoStarted(services))
              /\ queried = EnabledKeys(services)
              /\ TrackedKeys(tray_icons) = EnabledKeys(services))
    /\ [][last'.op = "tick" => commands' = <<>>]_vars

\* both records were started although the first start failed and the second
\* record is hidden
C27_Witness ==
    /\ last.op = "initialize"
    /\ Len(commands) = 2
    /\ commands[1].name = "nginx" /\ commands[1].is_user /\ ~commands[1].ok
    /\ commands[2].name = "nginx" /\ ~commands[2].is_user /\ commands[2].ok
    /\ commands[2].argv = <<"pkexec", "systemctl", "start", "nginx">>
    /\ TrackedKeys(tray_icons) = {<<"nginx", "user">>}

\* the processes whose application has been through cleanup()
Cleaned == {p \in Procs : procs[p].pc \in {"quitting", "closed", "exited"}}

\* C28: once cleanup() has run the timer is stopped and no service is
\* tracked; from then on no step is a tick, queries a status or notifies; the
\* second cleanup(), the one of main(), changes neither the timer nor the
\* tracked services nor anything else of the application, and ends normally.
C28_CleanupStopsPolling ==
    /\ [](\A p \in Cleaned : ~procs[p].timer /\ tray_icons = <<>>)
    /\ [][Cleaned # {} => /\ last'.op # "tick"
                          /\ queried' = {}
                          /\ notified' = <<>>]_vars
    /\ [][\A p \in Procs :
              MainCleanup(p) => /\ tray_icons' = tray_icons
                                /\ procs'[p].timer = procs[p].timer
                                /\ last_notification' = last_notification
                                /\ cfgvars' = cfgvars
                                /\ last'.result = TRUE]_vars

\* main() has run the second cleanup of an application that had notified
\* before it was asked to quit
C28_Witness ==
    /\ last = Call("cleanup", TRUE)
    /\ procs[1].pc = "closed" /\ ~procs[1].timer
    /\ tray_icons = <<>>
    /\ Len(services) = 2
    /\ "nginx" \in DOMAIN last_notification

\* the status notifications of a list that were sent for a service name
SentFor(notes, service_name) ==
    {j \in DOMAIN notes : /\ notes[j].kind \in StatusKinds
                          /\ notes[j].key[1] = service_name
                          /\ notes[j].sent}

\* no status notification of any kind was sent for the name in the last 30
\* seconds
QuietName(service_name) ==
    \A k \in DOMAIN last_sent :
        k[1] = service_name => now - last_sent[k] >= NOTIFICATION_RATE_LIMIT

\* C29: a request for a status notification, of whichever kind, is sent
\* exactly when no status notification of any kind was sent for its service
\* name less than 30 seconds before, in an earlier step or earlier in this
\* one; so two sent for one name are at least 30 seconds apart.  A step that
\* sends none for a name leaves the time kept for the name as it was.
C29_OnePerNamePerWindow ==
    [][\A n \in Names :
           /\ \A i \in DOMAIN notified' :
                  (notified'[i].kind \in StatusKinds /\ notified'[i].key[1] = n)
                  => (notified'[i].sent
                      <=> /\ QuietName(n)
                          /\ \A j \in SentFor(notified', n) : j >= i)
           /\ Cardinality(SentFor(notified', n)) <= 1
           /\ SentFor(notified', n) = {}
              => /\ Get(last_notification', n, 0) = Get(last_notification, n, 0)
                 /\ \A k \in DOMAIN last_sent' :
                        k[1] = n => (k \in DOMAIN last_sent /\ last_sent'[k] = last_sent[k])
           /\ SentFor(notified', n) # {}
              => Get(last_notification', n, 0) = now]_vars

\* a 'failed' is sent for (nginx, user) exactly 30 seconds after the last
\* notification sent under the name nginx, which was one for (nginx, system)
C29_Witness ==
    /\ now = StartTime + NOTIFICATION_RATE_LIMIT
    /\ last.op = "tick"
    /\ \E i \in DOMAIN notified :
           /\ notified[i].key = <<"nginx", "user">>
           /\ notified[i].kind = "failed" /\ notified[i].sent
    /\ last_notification = ("nginx" :> now)
    /\ last_sent = (<<"nginx", "user">> :> now) @@ (<<"nginx", "system">> :> StartTime)

\* C30: while the show_notifications setting is false, a pass of the poller
\* asks for no notification and leaves the rate-limit map as it was, whatever
\* the statuses change to, and still caches for every tracked key the status
\* queried for it; a tick step is such a pass.
C30_SilentTicksStillCache ==
    /\ [](~Get(settings, "show_notifications", TRUE)
          => \A q \in Queries(ServiceStatus) :
                 LET r == update_all_services(tray_icons, last_notification, <<>>,
                                              last_sent, q, show_notifications, now)
                 IN  /\ r.notified = <<>>
                     /\ r.lastn = last_notification
                     /\ r.sent_at = last_sent
                     /\ Len(r.tray) = Len(tray_icons)
                     /\ \A i \in DOMAIN tray_icons :
                            r.tray[i] = [key |-> tray_icons[i].key,
                                         status |-> q[tray_icons[i].key]])
    /\ [][(last'.op = "tick" /\ ~Get(settings, "show_notifications", TRUE))
          => /\ notified' = <<>>
             /\ last_notification' = last_notification
             /\ last_sent' = last_sent
             /\ queried' = TrackedKeys(tray_icons)
             /\ Tick(Observed(tray_icons'))]_vars

\* (nginx, user) was found failed and (nginx, system) started by ticks with
\* the setting off: nothing was ever notified
C30_Witness ==
    /\ last.op = "tick"
    /\ settings.show_notifications = FALSE
    /\ tray_icons = <<[key |-> <<"nginx", "user">>, status |-> "failed"],
                      [key |-> <<"nginx", "system">>, status |-> "active"]>>
    /\ notified = <<>>
    /\ last_notification = <<>>
    /\ last_sent = <<>>

====
